---- MODULE Spec2Model ----
(***************************************************************************)
(* Test variant generator (mrmelhay/TestVariantApp).                       *)
(*                                                                         *)
(* The repository holds three programs that assemble exam variants from an *)
(* Excel question bank and write a question booklet and an answer key per  *)
(* variant:                                                                *)
(*   "Validation" : src/TestApp-With-Validation.py (start_generation)      *)
(*   "Windowed"   : src/TestVariant-W.py           (start_generation)      *)
(*   "Script"     : src/TestV-App.py               (module-level loop)     *)
(* A behaviour of the model is one run of one of them.  A text is a        *)
(* sequence of one-character strings, so that strip(), lower() and the     *)
(* substring test act on characters as they do in Python.                  *)
(***************************************************************************)
EXTENDS Integers, Sequences, FiniteSets, TLC

(***************************************************************************)
(* Bounds of the model.                                                    *)
(***************************************************************************)
MaxVariants == 2      \* largest VARIANT_COUNT tried
MaxQCount == 2        \* largest QCOUNT / QUESTIONS_PER_VARIANT tried
MaxSheetLimit == 2    \* largest SHEET_LIMIT tried
MaxFromFirst == 2     \* largest FROM_FIRST tried
MaxExtraField == 1    \* largest value typed into the "Qo'shimcha savollar" field
MaxSheets == 2        \* most sheets in a workbook
MaxRows == 2          \* most rows in a sheet
MaxDigit == 1         \* booklet ids are drawn over the digits 0..MaxDigit
FIRST_SHEETS == 1     \* the literal 8 of TestV-App.py (range(8), all_sheets[8:]), scaled down

\* program constants
BOOKLET_ID_LENGTH == 7
MIN_OPTIONS == 4
FIRST_DATA_ROW == 2

(***************************************************************************)
(* Texts: Python str as a sequence of characters.                          *)
(***************************************************************************)
EMPTY == <<>>

\* str.lower() on one character
LowerChar(c) ==
    CASE c = "P" -> "p"
      [] c = "Q" -> "q"
      [] c = "B" -> "b"
      [] OTHER -> c

\* str.upper() on one character
UpperChar(c) ==
    CASE c = "p" -> "P"
      [] c = "q" -> "Q"
      [] c = "b" -> "B"
      [] OTHER -> c

lower(s) == [i \in 1..Len(s) |-> LowerChar(s[i])]

IsSpace(c) == c = " "

RECURSIVE lstrip(_)
lstrip(s) ==
    IF s # EMPTY /\ IsSpace(Head(s)) THEN lstrip(Tail(s)) ELSE s

RECURSIVE rstrip(_)
rstrip(s) ==
    IF s # EMPTY /\ IsSpace(s[Len(s)]) THEN rstrip(SubSeq(s, 1, Len(s) - 1)) ELSE s

\* str.strip()
strip(s) == rstrip(lstrip(s))

\* Python's "sub in s" on strings
contains(s, sub) ==
    \E i \in 0..(Len(s) - Len(sub)) : SubSeq(s, i + 1, i + Len(sub)) = sub

\* truth value of a str
truthy(s) == s # EMPTY

LABELS == <<"A", "B", "C", "D">>

NONE == "None"

(***************************************************************************)
(* Generic sequence helpers.                                               *)
(***************************************************************************)
RECURSIVE Flatten(_)
Flatten(ss) == IF ss = <<>> THEN <<>> ELSE Head(ss) \o Flatten(Tail(ss))

\* s[:n]
Take(s, n) == SubSeq(s, 1, IF n < Len(s) THEN n ELSE Len(s))

Min(a, b) == IF a < b THEN a ELSE b

Max(a, b) == IF a > b THEN a ELSE b

\* all orderings of the positions 1..n
Perms(n) == {p \in [1..n -> 1..n] : \A i, j \in 1..n : p[i] = p[j] => i = j}

\* mutant: a position may be picked again
SamplesWithRepeats(n, k) == [1..k -> 1..n]

\* all ways to pick k distinct positions of 1..n, in the order picked
Samples(n, k) == {p \in [1..k -> 1..n] : \A i, j \in 1..k : p[i] = p[j] => i = j}

\* all ways to pick k positions of 1..n, repeats allowed
Choices(n, k) == [1..k -> 1..n]

\* mutant: the item picked first is put at every position
PickFirstOnly(s, idx) == [i \in 1..Len(idx) |-> s[idx[1]]]

\* the items of s at the positions idx, in the order of idx
Pick(s, idx) == [i \in 1..Len(idx) |-> s[idx[i]]]

(***************************************************************************)
(* A workbook is a sequence of sheets (a sheet is named by its position);  *)
(* a sheet is the sequence of its data rows after the header row           *)
(* (df.iloc[1:]); a raw row is the question cell and the four cells after  *)
(* it, an empty cell (NaN) being the empty text.                           *)
(***************************************************************************)

\* TestApp-With-Validation.py / TestVariant-W.py: one (q, opts, corr) tuple
LoadRow(raw) ==
    [question |-> raw.q, opts |-> raw.cells, corr |-> raw.cells[1]]

\* xls.sheet_names[:SHEET_LIMIT] and the rows of each of these sheets
LoadSheets(wb, limit) ==
    [s \in 1..Min(limit, Len(wb)) |-> [r \in 1..Len(wb[s]) |-> LoadRow(wb[s][r])]]

\* TestV-App.py normalize_correct_label(correct, row): a label or NONE
ExactLabels(corr, opts) ==
    {l \in 1..4 : strip(opts[l]) # EMPTY /\ lower(corr) = lower(strip(opts[l]))}

SubstringLabels(corr, opts) ==
    {l \in 1..4 : strip(opts[l]) # EMPTY /\ contains(lower(strip(opts[l])), lower(corr))}

FirstOf(S) == CHOOSE l \in S : \A m \in S : l <= m

normalize_correct_label(correct, opts) ==
    LET corr == strip(correct) IN
    IF ~truthy(correct) THEN NONE
    ELSE IF Len(corr) = 1 /\ (\E l \in 1..4 : UpperChar(corr[1]) = LABELS[l])
         THEN UpperChar(corr[1])
    ELSE IF ExactLabels(corr, opts) # {} THEN LABELS[FirstOf(ExactLabels(corr, opts))]
    ELSE IF SubstringLabels(corr, opts) # {} THEN LABELS[FirstOf(SubstringLabels(corr, opts))]
    ELSE NONE

\* TestV-App.py read_sheet_rows keeps a row with a question and some option
Usable(raw) == truthy(raw.q) /\ (\E i \in 1..4 : truthy(raw.cells[i]))

\* TestV-App.py: the dict of one row; the "correct" column is the column of
\* option A (detect_columns), so correct_raw is the text of option A
ReadRow(raw) ==
    [question |-> raw.q, opts |-> raw.cells, correct_raw |-> raw.cells[1],
     correct |-> normalize_correct_label(raw.cells[1], raw.cells)]

read_sheet_rows(sheet) ==
    LET kept == SelectSeq(sheet, Usable) IN [r \in 1..Len(kept) |-> ReadRow(kept[r])]

ReadSheets(wb) == [s \in 1..Len(wb) |-> read_sheet_rows(wb[s])]

(***************************************************************************)
(* TestApp-With-Validation.py validate_question_bank.  An error message is *)
(* the record of what the message names: the sheet, and the row number or  *)
(* the two counts (0 where the message has none).                          *)
(***************************************************************************)
NonBlank(o) == strip(o) # EMPTY

\* mutant: a sheet with exactly the quota counts as short
SheetShortOffByOne(rows, from_first) == Len(rows) <= from_first

SheetShort(rows, from_first) == Len(rows) < from_first

ErrShort(sname, have, need) ==
    [kind |-> "savollar yetarli emas", sheet |-> sname, row |-> 0, have |-> have, need |-> need]

ErrRow(kind, sname, i) ==
    [kind |-> kind, sheet |-> sname, row |-> i, have |-> 0, need |-> 0]

QuestionBlank(row) == strip(row.question) = EMPTY

CorrectBlank(row) == strip(row.corr) = EMPTY

TooFewOptions(row) == Len(SelectSeq(row.opts, NonBlank)) < MIN_OPTIONS

\* mutant: the checks of one row stop at its first defect
RowErrorsFailFast(sname, i, row) ==
    IF QuestionBlank(row) THEN <<ErrRow("Savol bo'sh", sname, i)>>
    ELSE IF CorrectBlank(row) THEN <<ErrRow("To'g'ri javob yo'q", sname, i)>>
    ELSE IF TooFewOptions(row) THEN <<ErrRow("Variantlar 4 ta emas", sname, i)>>
    ELSE <<>>

RowErrors(sname, i, row) ==
    (IF QuestionBlank(row) THEN <<ErrRow("Savol bo'sh", sname, i)>> ELSE <<>>)
    \o (IF CorrectBlank(row) THEN <<ErrRow("To'g'ri javob yo'q", sname, i)>> ELSE <<>>)
    \o (IF TooFewOptions(row) THEN <<ErrRow("Variantlar 4 ta emas", sname, i)>> ELSE <<>>)

RECURSIVE RowsErrors(_, _, _)
RowsErrors(sname, rows, k) ==
    IF k > Len(rows) THEN <<>>
    ELSE RowErrors(sname, k + FIRST_DATA_ROW - 1, rows[k]) \o RowsErrors(sname, rows, k + 1)

SheetErrors(sname, rows, from_first) ==
    (IF SheetShort(rows, from_first) THEN <<ErrShort(sname, Len(rows), from_first)>> ELSE <<>>)
    \o RowsErrors(sname, rows, 1)

RECURSIVE BankErrors(_, _, _)
BankErrors(sheets, from_first, idx) ==
    IF idx > Len(sheets) THEN <<>>
    ELSE SheetErrors(idx, sheets[idx], from_first) \o BankErrors(sheets, from_first, idx + 1)

validate_question_bank(sheet_rows_by_sheet, from_first) ==
    BankErrors(sheet_rows_by_sheet, from_first, 1)

(***************************************************************************)
(* Option shuffling of one selected row.  random.shuffle is the choice of  *)
(* a permutation perm: the shuffled list is Pick(list, perm).  The result  *)
(* is the final_q entry (question, opts under A..D) and the key entry.     *)
(***************************************************************************)
PadTo4(s) == s \o [i \in 1..(4 - Len(s)) |-> EMPTY]

LabelAt(hits) == IF hits # {} THEN LABELS[FirstOf(hits)] ELSE ""

\* TestApp-With-Validation.py lines 339-349
ValidationCopy(row) == PadTo4(SelectSeq(row.opts, truthy))

\* mutant: the correct text is looked up without its surrounding blanks
ValidationLabelStripped(opts_copy, corr) ==
    LabelAt({i \in 1..4 : opts_copy[i] = strip(corr)})

ValidationLabel(opts_copy, corr) ==
    LabelAt({i \in 1..4 : opts_copy[i] = corr})

ValidationShuffle(row, perm) ==
    LET opts_copy == Pick(ValidationCopy(row), perm) IN
    [question |-> row.question, opts |-> opts_copy,
     label |-> ValidationLabel(opts_copy, row.corr)]

\* TestVariant-W.py lines 396-412
WindowedCopy(row) == PadTo4(SelectSeq(row.opts, NonBlank))

WindowedLabel(opts_copy, corr) ==
    IF \E i \in 1..4 : opts_copy[i] = corr
    THEN LabelAt({i \in 1..4 : opts_copy[i] = corr})
    ELSE LabelAt({i \in 1..4 : /\ truthy(corr)
                               /\ truthy(opts_copy[i])
                               /\ contains(lower(strip(opts_copy[i])), lower(strip(corr)))})

WindowedShuffle(row, perm) ==
    LET opts_copy == Pick(WindowedCopy(row), perm) IN
    [question |-> row.question, opts |-> opts_copy,
     label |-> WindowedLabel(opts_copy, row.corr)]

\* TestV-App.py shuffle_question, lines 114-153
non_empty(row) == SelectSeq(row.opts, NonBlank)

LabelIndex(l) == CHOOSE i \in 1..4 : LABELS[i] = l

\* lines 132-139: the text the new label is searched by
orig_text(row) ==
    IF row.correct # NONE THEN row.opts[LabelIndex(row.correct)] ELSE row.correct_raw

\* mutant: the original text inside an option is tried before the exact match
NewCorrectPartialFirst(new_opts, text) ==
    LET exact == {i \in 1..4 : /\ truthy(new_opts[i])
                               /\ lower(strip(new_opts[i])) = lower(strip(text))}
        partial == {i \in 1..4 : /\ truthy(new_opts[i])
                                 /\ contains(lower(strip(new_opts[i])), lower(strip(text)))}
    IN IF ~truthy(text) THEN NONE
       ELSE IF partial # {} THEN LABELS[FirstOf(partial)]
       ELSE IF exact # {} THEN LABELS[FirstOf(exact)]
       ELSE NONE

\* lines 141-152: exact match first, then the original text inside an option
new_correct(new_opts, text) ==
    LET exact == {i \in 1..4 : /\ truthy(new_opts[i])
                               /\ lower(strip(new_opts[i])) = lower(strip(text))}
        partial == {i \in 1..4 : /\ truthy(new_opts[i])
                                 /\ contains(lower(strip(new_opts[i])), lower(strip(text)))}
    IN IF ~truthy(text) THEN NONE
       ELSE IF exact # {} THEN LABELS[FirstOf(exact)]
       ELSE IF partial # {} THEN LABELS[FirstOf(partial)]
       ELSE NONE

shuffle_question(row, perm) ==
    IF Len(non_empty(row)) < 2
    THEN [question |-> row.question, opts |-> row.opts, new_correct |-> NONE]
    ELSE LET new_opts == PadTo4(Pick(non_empty(row), perm)) IN
         [question |-> row.question, opts |-> new_opts,
          new_correct |-> new_correct(new_opts, orig_text(row))]

\* mutant: answer_key.append(new_correct), the None of a failed lookup included
ScriptShuffleNoMarker(row, perm) ==
    LET r == shuffle_question(row, perm) IN
    [question |-> r.question, opts |-> r.opts, label |-> r.new_correct]

\* TestV-App.py lines 290-296: the final_questions entry and the key entry
ScriptShuffle(row, perm) ==
    LET r == shuffle_question(row, perm) IN
    [question |-> r.question, opts |-> r.opts,
     label |-> IF r.new_correct # NONE THEN r.new_correct ELSE ""]

\* how many items the random.shuffle of one row's options permutes (0: no call)
ShuffleArity(program, row) ==
    IF program = "Script"
    THEN (IF Len(non_empty(row)) < 2 THEN 0 ELSE Len(non_empty(row)))
    ELSE 4

ShuffleRow(program, row, perm) ==
    CASE program = "Validation" -> ValidationShuffle(row, perm)
      [] program = "Windowed" -> WindowedShuffle(row, perm)
      [] OTHER -> ScriptShuffle(row, perm)

(***************************************************************************)
(* Inputs of a run.                                                        *)
(***************************************************************************)
Programs == {"Validation", "Windowed", "Script"}

T_p == <<"p">>

T_q == <<"q">>

T_stem == <<"s">>

\* rows of the question banks tried: a complete row and a row with two options
BankRows ==
    { [q |-> T_stem, cells |-> <<T_p, T_q, T_q, T_q>>],
      [q |-> T_stem, cells |-> <<T_q, T_p, EMPTY, EMPTY>>] }

SeqsUpTo(S, n) == UNION {[1..k -> S] : k \in 0..n}

Sheets == SeqsUpTo(BankRows, MaxRows)

Workbooks == SeqsUpTo(Sheets, MaxSheets)

Digits == 0..MaxDigit

\* ''.join(random.choices(string.digits, k=7)): of the ids over the digits tried,
\* those that repeat one digit
BookletIds == {[i \in 1..BOOKLET_ID_LENGTH |-> d] : d \in Digits}

VARIABLES
    prog,           \* which of the three programs runs
    workbook,       \* the Excel file
    VARIANT_COUNT,  \* vars_list[1] / VARIANT_COUNT
    QCOUNT,         \* vars_list[5] / QUESTIONS_PER_VARIANT
    SHEET_LIMIT,    \* vars_list[6]
    FROM_FIRST,     \* vars_list[7] / FROM_FIRST_8_PER_SHEET
    extra_field,    \* vars_list[8] / EXTRA_FROM_OTHER_SHEETS
    EXTRA,          \* the EXTRA the run draws with
    sheet_rows,     \* sheet_rows_by_sheet / sheet_rows
    errors,         \* what validate_question_bank returned
    pc,             \* where the run is
    outcome,        \* how the run ended: "" while it runs
    v,              \* the variant being assembled
    sheet_idx,      \* the sheet the quota loop is at
    q_idx,          \* the question the option loop is at
    selected, final_q, key, booklet_id,
    variant_docs,   \* the booklets written: number, booklet id, question count
    key_docs,       \* the answer keys written: number, booklet id, answer count
    rng_log         \* the calls on the random module made for this variant

vars == <<prog, workbook, VARIANT_COUNT, QCOUNT, SHEET_LIMIT, FROM_FIRST, extra_field,
          EXTRA, sheet_rows, errors, pc, outcome, v, sheet_idx, q_idx, selected,
          final_q, key, booklet_id, variant_docs, key_docs, rng_log>>

inputs == <<prog, workbook, VARIANT_COUNT, QCOUNT, SHEET_LIMIT, FROM_FIRST>>

locals == <<selected, final_q, key, booklet_id, sheet_idx, q_idx, rng_log>>

docs == <<variant_docs, key_docs>>

InitLocals ==
    /\ EXTRA = 0 /\ sheet_rows = <<>> /\ errors = <<>>
    /\ pc = "start" /\ outcome = "" /\ v = 0 /\ sheet_idx = 1 /\ q_idx = 1
    /\ selected = <<>> /\ final_q = <<>> /\ key = <<>> /\ booklet_id = <<>>
    /\ variant_docs = <<>> /\ key_docs = <<>> /\ rng_log = <<>>

Init ==
    /\ prog \in Programs
    /\ workbook \in Workbooks
    /\ VARIANT_COUNT \in 0..MaxVariants
    /\ QCOUNT \in 0..MaxQCount
    /\ FROM_FIRST \in 0..MaxFromFirst
    /\ extra_field \in 0..MaxExtraField
    /\ SHEET_LIMIT \in (IF prog = "Script" THEN {FIRST_SHEETS} ELSE 0..MaxSheetLimit)
    /\ InitLocals

(***************************************************************************)
(* The order of the steps of one variant.                                  *)
(***************************************************************************)
\* mutant: the booklet id is drawn before the options are shuffled
NextPhaseBookletFirst(p) ==
    CASE p = "start" -> "quota"
      [] p = "quota" -> "overflow"
      [] p = "overflow" -> "order"
      [] p = "order" -> "booklet"
      [] p = "booklet" -> "options"
      [] p = "options" -> "write"

NextPhase(p) ==
    CASE p = "start" -> "quota"
      [] p = "quota" -> "overflow"
      [] p = "overflow" -> "order"
      [] p = "order" -> "options"
      [] p = "options" -> "booklet"
      [] p = "booklet" -> "write"

\* the sheets the quota loop visits
QuotaSheets == IF prog = "Script" THEN FIRST_SHEETS ELSE Len(sheet_rows)

\* the rows the option loop visits: selected[:QCOUNT], or all of selected
Questions(sel) == IF prog = "Script" THEN sel ELSE Take(sel, QCOUNT)

\* the step after phase p, a loop over nothing being no step
RECURSIVE Advance(_, _, _)
Advance(p, nsheets, nquestions) ==
    LET n == NextPhase(p) IN
    IF (n = "quota" /\ nsheets = 0) \/ (n = "options" /\ nquestions = 0)
    THEN Advance(n, nsheets, nquestions)
    ELSE n

(***************************************************************************)
(* Start of a run: the fields are read, the workbook is loaded, and the    *)
(* run is admitted or refused.                                             *)
(***************************************************************************)
\* EXTRA = max(0, QCOUNT - SHEET_LIMIT * FROM_FIRST)
ComputeExtra(qcount, sheet_limit, from_first) == Max(0, qcount - sheet_limit * from_first)

\* "if errors: ... return"
Refused(errs) == errs # <<>>

ClearLocals ==
    /\ selected' = <<>> /\ final_q' = <<>> /\ key' = <<>> /\ booklet_id' = <<>>
    /\ sheet_idx' = 1 /\ q_idx' = 1 /\ rng_log' = <<>>

\* the run ends here
Finish(how) ==
    /\ pc' = "done" /\ outcome' = how /\ ClearLocals

\* the for loop over the variants starts, or has nothing to do
EnterLoop(nsheets, finished) ==
    IF VARIANT_COUNT < 1
    THEN Finish(finished) /\ v' = v
    ELSE /\ v' = 1 /\ pc' = Advance("start", nsheets, 0) /\ outcome' = ""
         /\ ClearLocals

\* TestApp-With-Validation.py start_generation, lines 280-323
StartValidation ==
    /\ pc = "start" /\ prog = "Validation"
    /\ EXTRA' = ComputeExtra(QCOUNT, SHEET_LIMIT, FROM_FIRST)
    /\ extra_field' = EXTRA'
    /\ sheet_rows' = LoadSheets(workbook, SHEET_LIMIT)
    /\ errors' = validate_question_bank(sheet_rows', FROM_FIRST)
    /\ IF Refused(errors')
       THEN Finish("showerror") /\ v' = v
       ELSE EnterLoop(Len(sheet_rows'), "showinfo")
    /\ UNCHANGED <<inputs, docs>>

\* TestVariant-W.py start_generation, lines 325-371
StartWindowed ==
    /\ pc = "start" /\ prog = "Windowed"
    /\ EXTRA' = ComputeExtra(QCOUNT, SHEET_LIMIT, FROM_FIRST)
    /\ extra_field' = EXTRA'
    /\ sheet_rows' = LoadSheets(workbook, SHEET_LIMIT)
    /\ IF VARIANT_COUNT <= 0
       THEN Finish("showerror") /\ v' = v
       ELSE EnterLoop(Len(sheet_rows'), "showinfo")
    /\ UNCHANGED <<inputs, docs, errors>>

\* TestV-App.py, lines 202-250
StartScript ==
    /\ pc = "start" /\ prog = "Script"
    /\ EXTRA' = extra_field
    /\ sheet_rows' = ReadSheets(workbook)
    /\ IF Len(workbook) < FIRST_SHEETS
       THEN Finish("SystemExit") /\ v' = v
       ELSE EnterLoop(FIRST_SHEETS, "finished")
    /\ UNCHANGED <<inputs, docs, errors, extra_field>>

(***************************************************************************)
(* The draws of one variant.  A draw is the choice of the positions drawn. *)
(***************************************************************************)
\* one call on the random module: what it draws for, and for which sheet or
\* question (0: for the variant)
Draw(phase, at) == [phase |-> phase, at |-> at]

\* mutant: the entry is put in front of the key
KeyPrepend(k, label) == <<label>> \o k

\* key.append(label) / answer_key.append(...)
KeyAppend(k, label) == Append(k, label)

\* "if rows:" / "if not rows: continue"
QuotaSkipped(program, rows) == program # "Script" /\ rows = <<>>

\* random.choice of an empty list raises IndexError
QuotaRaises(program, rows, from_first) ==
    program = "Script" /\ Len(rows) < from_first /\ rows = <<>>

QuotaDraws(program, rows, from_first) ==
    IF program = "Validation" THEN Samples(Len(rows), Min(from_first, Len(rows)))
    ELSE IF Len(rows) >= from_first THEN Samples(Len(rows), from_first)
    ELSE Choices(Len(rows), from_first)

\* an uncaught exception ends the script; the handlers catch and report it
Raise ==
    /\ Finish(IF prog = "Script" THEN "exception" ELSE "showerror")
    /\ UNCHANGED <<v, docs>>

QuotaDraw ==
    /\ pc = "quota"
    /\ LET rows == sheet_rows[sheet_idx]
           last == sheet_idx = QuotaSheets
       IN IF QuotaRaises(prog, rows, FROM_FIRST) THEN Raise
          ELSE /\ IF QuotaSkipped(prog, rows)
                  THEN selected' = selected /\ rng_log' = rng_log
                  ELSE \E idx \in QuotaDraws(prog, rows, FROM_FIRST) :
                          /\ selected' = selected \o Pick(rows, idx)
                          /\ rng_log' = Append(rng_log, Draw("quota", sheet_idx))
               /\ sheet_idx' = sheet_idx + 1
               /\ pc' = IF last THEN Advance("quota", 0, 0) ELSE pc
               /\ UNCHANGED <<outcome, v, q_idx, final_q, key, booklet_id, docs>>
    /\ UNCHANGED <<inputs, extra_field, EXTRA, sheet_rows, errors>>

\* flat_pool / global_pool: the rows of all sheets read
flat_pool == Flatten(sheet_rows)

\* TestV-App.py line 245, 266-268: the rows of the sheets after the first ones
other_pool == Flatten(SubSeq(sheet_rows, FIRST_SHEETS + 1, Len(sheet_rows)))

OverflowPool(program) ==
    IF program = "Script" /\ Len(other_pool) >= EXTRA THEN other_pool ELSE flat_pool

\* "if EXTRA > 0 and flat_pool:"
OverflowSkipped(program) == program # "Script" /\ ~(EXTRA > 0 /\ flat_pool # <<>>)

\* random.sample of more than the pool holds raises ValueError
OverflowRaises(program) == program = "Script" /\ Len(OverflowPool(program)) < EXTRA

OverflowDraws(program, pool) ==
    IF program = "Validation" THEN Samples(Len(pool), Min(EXTRA, Len(pool)))
    ELSE IF Len(pool) >= EXTRA THEN Samples(Len(pool), EXTRA)
    ELSE Choices(Len(pool), EXTRA)

OverflowDraw ==
    /\ pc = "overflow"
    /\ IF OverflowRaises(prog) THEN Raise
       ELSE /\ IF OverflowSkipped(prog)
               THEN selected' = selected /\ rng_log' = rng_log
               ELSE \E idx \in OverflowDraws(prog, OverflowPool(prog)) :
                       /\ selected' = selected \o Pick(OverflowPool(prog), idx)
                       /\ rng_log' = Append(rng_log, Draw("overflow", 0))
            /\ pc' = Advance("overflow", 0, Len(Questions(selected')))
            /\ UNCHANGED <<outcome, v, sheet_idx, q_idx, final_q, key, booklet_id, docs>>
    /\ UNCHANGED <<inputs, extra_field, EXTRA, sheet_rows, errors>>

\* random.shuffle(selected); final_q = []; key = []
ShuffleSelected ==
    /\ pc = "order"
    /\ \E perm \in Perms(Len(selected)) : selected' = Pick(selected, perm)
    /\ rng_log' = Append(rng_log, Draw("order", 0))
    /\ final_q' = <<>> /\ key' = <<>> /\ q_idx' = 1
    /\ pc' = Advance("order", 0, Len(Questions(selected')))
    /\ UNCHANGED <<inputs, extra_field, EXTRA, sheet_rows, errors, outcome, v,
                   sheet_idx, booklet_id, docs>>

\* mutant: random.shuffle is given the option list of the row itself, which is
\* the list the bank holds
BankAfterShuffleInPlace(bank, row, shuffled) ==
    [s \in 1..Len(bank) |->
        [k \in 1..Len(bank[s]) |->
            IF bank[s][k] = row THEN [row EXCEPT !.opts = shuffled] ELSE bank[s][k]]]

\* the bank after the options of one of its rows are shuffled: random.shuffle
\* is given opts_copy / non_empty, a list built by a comprehension, so the
\* option list that the bank's row holds is not the list permuted
BankAfterShuffle(bank, row, shuffled) == bank

\* one pass of the loop over the selected rows
ShuffleOptions ==
    /\ pc = "options"
    /\ LET row == Questions(selected)[q_idx]
           n == ShuffleArity(prog, row)
       IN \E perm \in Perms(n) :
             LET r == ShuffleRow(prog, row, perm) IN
             /\ final_q' = Append(final_q, [question |-> r.question, opts |-> r.opts])
             /\ key' = KeyAppend(key, r.label)
             /\ rng_log' = IF n > 0 THEN Append(rng_log, Draw("options", q_idx)) ELSE rng_log
             /\ sheet_rows' = BankAfterShuffle(sheet_rows, row, r.opts)
    /\ q_idx' = q_idx + 1
    /\ pc' = IF q_idx = Len(Questions(selected))
             THEN Advance("options", 0, Len(Questions(selected)))
             ELSE pc
    /\ UNCHANGED <<inputs, extra_field, EXTRA, errors, outcome, v,
                   sheet_idx, selected, booklet_id, docs>>

\* booklet_id = ''.join(random.choices(string.digits, k=7))
BookletId ==
    /\ pc = "booklet"
    /\ booklet_id' \in BookletIds
    /\ rng_log' = Append(rng_log, Draw("booklet", 0))
    /\ pc' = Advance("booklet", 0, Len(Questions(selected)))
    /\ UNCHANGED <<inputs, extra_field, EXTRA, sheet_rows, errors, outcome, v,
                   sheet_idx, q_idx, selected, final_q, key, docs>>

(***************************************************************************)
(* The two documents of the variant are written and the loop goes on.  The *)
(* files are never read back; the model keeps of each what its heading     *)
(* shows.  The locals of the loop body are dead once the documents are     *)
(* written (each is assigned before it is read again) and are cleared.     *)
(***************************************************************************)
NO_BOOKLET == <<>>

\* write_variant_docx(var_file, booklet_id, program_name, final_q)
VariantDoc(number, id, questions) ==
    [number |-> number, booklet_id |-> id, count |-> Len(questions)]

\* write_key_docx(key_file, v, key, booklet_id); TestV-App.py passes no booklet id
KeyDoc(program, number, id, answers) ==
    [number |-> number, booklet_id |-> IF program = "Script" THEN NO_BOOKLET ELSE id,
     count |-> Len(answers)]

Write ==
    /\ pc = "write"
    /\ variant_docs' = Append(variant_docs, VariantDoc(v, booklet_id, final_q))
    /\ key_docs' = Append(key_docs, KeyDoc(prog, v, booklet_id, key))
    /\ IF v < VARIANT_COUNT
       THEN /\ v' = v + 1 /\ pc' = Advance("start", QuotaSheets, 0) /\ outcome' = ""
            /\ ClearLocals
       ELSE Finish(IF prog = "Script" THEN "finished" ELSE "showinfo") /\ v' = v
    /\ UNCHANGED <<inputs, extra_field, EXTRA, sheet_rows, errors>>

Next ==
    \/ StartValidation
    \/ StartWindowed
    \/ StartScript
    \/ QuotaDraw
    \/ OverflowDraw
    \/ ShuffleSelected
    \/ ShuffleOptions
    \/ BookletId
    \/ Write

Spec == Init /\ [][Next]_vars

(***************************************************************************)
(* validate_question_bank on its own: the fields and the workbook are      *)
(* drawn from banks with every mix of the three record defects, the sheets *)
(* are loaded and validated as start_generation does.                      *)
(***************************************************************************)
MaxValRows == 2       \* most rows in a sheet of these banks

T_blank == <<" ">>

ValRows ==
    { [q |-> q, cells |-> <<a, b, T_p, T_p>>] :
          q \in {T_stem, T_blank}, a \in {T_p, T_blank}, b \in {T_q, EMPTY} }

ValWorkbooks == SeqsUpTo(SeqsUpTo(ValRows, MaxValRows), MaxSheets)

ValInit ==
    /\ prog = "Validation"
    /\ workbook \in ValWorkbooks
    /\ VARIANT_COUNT = 1
    /\ QCOUNT = 1
    /\ FROM_FIRST \in 0..MaxFromFirst
    /\ SHEET_LIMIT \in 0..MaxSheetLimit
    /\ extra_field = 0
    /\ InitLocals

\* TestApp-With-Validation.py lines 300-315
Validate ==
    /\ pc = "start"
    /\ sheet_rows' = LoadSheets(workbook, SHEET_LIMIT)
    /\ errors' = validate_question_bank(sheet_rows', FROM_FIRST)
    /\ pc' = "validated"
    /\ UNCHANGED <<inputs, extra_field, EXTRA, outcome, v, locals, docs>>

SpecValidate == ValInit /\ [][Validate]_vars

(***************************************************************************)
(* The option shuffle on its own: one row over texts that differ in case,  *)
(* in blanks and by inclusion is loaded and shuffled as the program does.  *)
(***************************************************************************)
OptionTexts ==
    {EMPTY, T_blank, <<"p">>, <<"P">>, <<"p", " ">>, <<"p", "q">>, <<"q">>, <<"b">>}

ShuffleRows == {[q |-> T_stem, cells |-> c] : c \in [1..4 -> OptionTexts]}

ShuffleInit ==
    /\ prog \in Programs
    /\ \E raw \in ShuffleRows : workbook = <<<<raw>>>>
    /\ VARIANT_COUNT = 1
    /\ QCOUNT = 1
    /\ FROM_FIRST = 1
    /\ SHEET_LIMIT = 1
    /\ extra_field = 0
    /\ InitLocals

\* the row is loaded and picked, and its options are shuffled
ShuffleOne ==
    /\ pc = "start"
    /\ sheet_rows' = IF prog = "Script" THEN ReadSheets(workbook)
                     ELSE LoadSheets(workbook, SHEET_LIMIT)
    /\ selected' = sheet_rows'[1]
    /\ IF selected' = <<>>
       THEN final_q' = <<>> /\ key' = <<>>
       ELSE \E perm \in Perms(ShuffleArity(prog, selected'[1])) :
               LET r == ShuffleRow(prog, selected'[1], perm) IN
               /\ final_q' = <<[question |-> r.question, opts |-> r.opts]>>
               /\ key' = KeyAppend(<<>>, r.label)
    /\ pc' = "shuffled"
    /\ UNCHANGED <<inputs, extra_field, EXTRA, errors, outcome, v, sheet_idx, q_idx,
                   booklet_id, rng_log, docs>>

SpecShuffle == ShuffleInit /\ [][ShuffleOne]_vars

(***************************************************************************)
(* Properties.                                                             *)
(***************************************************************************)
Numbers(written) == [i \in 1..Len(written) |-> written[i].number]

UpTo(n) == [i \in 1..n |-> i]

\* the bank and the fields as validate_question_bank sees them
BankErrorsOfRun == validate_question_bank(LoadSheets(workbook, SHEET_LIMIT), FROM_FIRST)

\* the spec's domain: variantCount > 0 and totalQuestions > 0
SpecDomain == VARIANT_COUNT > 0 /\ QCOUNT > 0

\* perGroupQuota * groupCount + overflowCount = totalQuestions
ConfigConsistent == FROM_FIRST * SHEET_LIMIT + EXTRA = QCOUNT

\* C1: a variant of a bank and spec that pass validation (the spec consistent,
\* the bank holding at least QCOUNT rows) holds exactly QCOUNT questions and
\* answers when it is handed to the writers
C1_ExactlyTotalQuestions ==
    (/\ prog = "Validation"
     /\ pc = "write"
     /\ SpecDomain /\ ConfigConsistent
     /\ Len(flat_pool) >= QCOUNT)
    => (Len(final_q) = QCOUNT /\ Len(key) = QCOUNT)

\* the key entry the program computes for a row laid out as opts
LabelFor(program, row, opts) ==
    CASE program = "Validation" -> ValidationLabel(opts, row.corr)
      [] program = "Windowed" -> WindowedLabel(opts, row.corr)
      [] OTHER -> IF Len(non_empty(row)) < 2 \/ new_correct(opts, orig_text(row)) = NONE
                  THEN ""
                  ELSE new_correct(opts, orig_text(row))

\* C3: the key is as long as the question list, and entry i of the key is the
\* label of the question stored at position i, which is row i of the selection
C3_KeyMatchesQuestions ==
    /\ Len(key) = Len(final_q)
    /\ \A i \in 1..Len(final_q) :
          /\ final_q[i].question = Questions(selected)[i].question
          /\ key[i] = LabelFor(prog, Questions(selected)[i], final_q[i].opts)
    /\ \A i \in 1..Len(variant_docs) :
          /\ key_docs[i].number = variant_docs[i].number
          /\ key_docs[i].count = variant_docs[i].count

\* C3 witness: a two-question variant whose answers differ is ready to be written
C3_Witness ==
    /\ pc = "write" /\ Len(key) = 2 /\ key[1] # key[2] /\ key[1] # "" /\ key[2] # ""

\* C4: a bank with a malformed record (validate_question_bank names a row) is
\* never drawn from and no document is written from it
C4_InvalidBankWritesNothing ==
    (/\ prog \in {"Validation", "Windowed"}
     /\ SpecDomain
     /\ \E i \in 1..Len(BankErrorsOfRun) : BankErrorsOfRun[i].row # 0)
    => (rng_log = <<>> /\ variant_docs = <<>> /\ key_docs = <<>>)

\* C6: once the fields are read, a spec whose FROM_FIRST * SHEET_LIMIT + EXTRA
\* differs from QCOUNT (its SHEET_LIMIT sheets being there) has a validation
\* error and nothing is drawn or written
C6_MismatchReported ==
    (/\ prog = "Validation"
     /\ pc # "start"
     /\ Len(workbook) >= SHEET_LIMIT
     /\ SpecDomain /\ ~ConfigConsistent)
    => (Refused(errors) /\ rng_log = <<>> /\ variant_docs = <<>>)

\* the run was let into the loop over the variants
Admitted ==
    CASE prog = "Validation" -> ~Refused(errors)
      [] prog = "Windowed" -> VARIANT_COUNT > 0
      [] OTHER -> Len(workbook) >= FIRST_SHEETS

\* C9: an admitted run ends with the booklets and keys 1..VARIANT_COUNT written,
\* in this order, and draws for a variant only after the variant before it is written
C9_AllPairsWritten ==
    /\ (pc = "done" /\ Admitted /\ SpecDomain /\ ConfigConsistent)
       => (/\ Numbers(variant_docs) = UpTo(VARIANT_COUNT)
           /\ Numbers(key_docs) = UpTo(VARIANT_COUNT))
    /\ (pc \notin {"start", "done"})
       => (/\ Numbers(variant_docs) = UpTo(v - 1)
           /\ Numbers(key_docs) = UpTo(v - 1))

Rank(phase) ==
    CASE phase = "quota" -> 1
      [] phase = "overflow" -> 2
      [] phase = "order" -> 3
      [] phase = "options" -> 4
      [] phase = "booklet" -> 5

Phases(log) == {log[i].phase : i \in 1..Len(log)}

\* C10: the calls on the random module for one variant come in the order quota
\* draws (by sheet), overflow draw, shuffle of the selection, option shuffles (by
\* question), booklet id; a written variant has made the shuffle of the selection
\* and, last, the booklet id
C10_DrawOrder ==
    /\ \A i \in 1..(Len(rng_log) - 1) :
          LET a == rng_log[i]
              b == rng_log[i + 1]
          IN \/ Rank(a.phase) < Rank(b.phase)
             \/ (a.phase = b.phase /\ a.phase \in {"quota", "options"} /\ a.at < b.at)
    /\ pc = "write" =>
          (/\ "order" \in Phases(rng_log)
           /\ rng_log[Len(rng_log)].phase = "booklet")

\* C10 witness: a variant that made draws of all five kinds is ready to be written
C10_Witness ==
    pc = "write" /\ Phases(rng_log) = {"quota", "overflow", "order", "options", "booklet"}

(***************************************************************************)
(* Properties of the option shuffle (SpecShuffle).                         *)
(***************************************************************************)
Shuffled == pc = "shuffled" /\ selected # <<>>

TwoOptions(row) == Len(SelectSeq(row.opts, NonBlank)) >= 2

\* the label of the row's correct option: column 1 is option A in the two
\* window programs, the script holds the label it resolved
OriginalLabel(program, row) == IF program = "Script" THEN row.correct ELSE "A"

OriginalText(program, row) ==
    IF OriginalLabel(program, row) = NONE THEN EMPTY
    ELSE row.opts[LabelIndex(OriginalLabel(program, row))]

TextUnder(q, label) == q.opts[LabelIndex(label)]

\* C2 as stated: for a row with two or more options and a resolved correct
\* label (one that names an option that is there), the key entry is a label and
\* the text under it is the text of the original correct option
C2_SameTextExactly ==
    (/\ Shuffled
     /\ TwoOptions(selected[1])
     /\ OriginalLabel(prog, selected[1]) # NONE
     /\ NonBlank(OriginalText(prog, selected[1])))
    => (/\ key[1] # ""
        /\ TextUnder(final_q[1], key[1]) = OriginalText(prog, selected[1]))

\* C2 amended: for such a row the key entry is a label and the text under it
\* is the original correct text, letter for letter in the two window programs,
\* up to surrounding blanks and case in the script
C2_SameTextUpToCase ==
    (/\ Shuffled
     /\ TwoOptions(selected[1])
     /\ OriginalLabel(prog, selected[1]) # NONE
     /\ NonBlank(OriginalText(prog, selected[1])))
    => (/\ key[1] # ""
        /\ IF prog = "Script"
           THEN lower(strip(TextUnder(final_q[1], key[1])))
                   = lower(strip(OriginalText(prog, selected[1])))
           ELSE TextUnder(final_q[1], key[1]) = OriginalText(prog, selected[1]))

\* C2 witness: the script moved the correct option of such a row to a label
\* whose text differs from the original in case or blanks only
C2_Witness ==
    /\ Shuffled /\ prog = "Script"
    /\ TwoOptions(selected[1])
    /\ OriginalLabel(prog, selected[1]) # NONE
    /\ NonBlank(OriginalText(prog, selected[1]))
    /\ key[1] \notin {"", OriginalLabel(prog, selected[1])}
    /\ TextUnder(final_q[1], key[1]) # OriginalText(prog, selected[1])

(***************************************************************************)
(* Properties of validation.                                               *)
(***************************************************************************)
Blank(t) == \A i \in 1..Len(t) : t[i] = " "

\* the sheets the run loads: the first SHEET_LIMIT of the workbook
LoadedSheets == 1..Min(SHEET_LIMIT, Len(workbook))

ShortErrors == {i \in 1..Len(errors) : errors[i].row = 0}

\* C7 (Spec): validation reports, for each loaded sheet with fewer than
\* FROM_FIRST rows, one error naming the sheet, its row count and FROM_FIRST, none
\* for the other sheets, and after such an error nothing is drawn or written
C7_ShortSheetsReported ==
    (prog = "Validation" /\ pc # "start")
    => (/\ \A s \in LoadedSheets :
              Cardinality({i \in ShortErrors : errors[i].sheet = s})
                 = IF Len(workbook[s]) < FROM_FIRST THEN 1 ELSE 0
        /\ \A i \in ShortErrors :
              /\ errors[i].sheet \in LoadedSheets
              /\ errors[i].have = Len(workbook[errors[i].sheet])
              /\ errors[i].need = FROM_FIRST
        /\ ShortErrors # {}
              => (rng_log = <<>> /\ variant_docs = <<>> /\ key_docs = <<>>))

\* C7 witness: a run ended on the report of a one-row sheet under a quota of
\* two, a second sheet with two rows not being reported
C7_Witness ==
    /\ prog = "Validation" /\ pc = "done" /\ FROM_FIRST = 2
    /\ \E i \in ShortErrors : errors[i].have = 1 /\ errors[i].need = 2
    /\ \E s \in LoadedSheets :
          Len(workbook[s]) = 2 /\ \A i \in ShortErrors : errors[i].sheet # s

\* the defects of one raw row
NoQuestion(raw) == Blank(raw.q)

NoCorrect(raw) == Blank(raw.cells[1])

NotFour(raw) == Cardinality({c \in 1..4 : ~Blank(raw.cells[c])}) < 4

HasError(kind, s, r) ==
    \E i \in 1..Len(errors) :
        errors[i].kind = kind /\ errors[i].sheet = s /\ errors[i].row = r

\* C8 (SpecValidate): every defect of every loaded row has its own error naming
\* the sheet and the row, every error names a defect or a short sheet that is
\* there, no error comes twice, and the list is empty exactly when no sheet is
\* short and no row has a defect
C8_EveryDefectReported ==
    pc = "validated"
    => (/\ \A s \in LoadedSheets : \A r \in 1..Len(workbook[s]) :
              LET raw == workbook[s][r]
                  line == r + FIRST_DATA_ROW - 1
              IN /\ NoQuestion(raw) <=> HasError("Savol bo'sh", s, line)
                 /\ NoCorrect(raw) <=> HasError("To'g'ri javob yo'q", s, line)
                 /\ NotFour(raw) <=> HasError("Variantlar 4 ta emas", s, line)
        /\ \A i \in 1..Len(errors) :
              /\ errors[i].sheet \in LoadedSheets
              /\ errors[i].row = 0 => Len(workbook[errors[i].sheet]) < FROM_FIRST
              /\ errors[i].row # 0 =>
                    errors[i].row - FIRST_DATA_ROW + 1 \in 1..Len(workbook[errors[i].sheet])
              /\ \A j \in 1..Len(errors) : errors[i] = errors[j] => i = j
        /\ errors = <<>> <=>
              \A s \in LoadedSheets :
                 /\ Len(workbook[s]) >= FROM_FIRST
                 /\ \A r \in 1..Len(workbook[s]) :
                       LET raw == workbook[s][r]
                       IN ~NoQuestion(raw) /\ ~NoCorrect(raw) /\ ~NotFour(raw))

\* C8 witness: the second row of a sheet has all three defects and three errors
C8_Witness ==
    /\ pc = "validated"
    /\ \E s \in LoadedSheets :
          /\ Len(workbook[s]) = 2
          /\ NoQuestion(workbook[s][2]) /\ NoCorrect(workbook[s][2]) /\ NotFour(workbook[s][2])
          /\ Cardinality({i \in 1..Len(errors) : errors[i].sheet = s /\ errors[i].row = 3}) = 3

(***************************************************************************)
(* The bank during a run.                                                  *)
(***************************************************************************)
\* the bank as the program loaded it from the workbook
LoadedBank ==
    IF prog = "Script" THEN ReadSheets(workbook) ELSE LoadSheets(workbook, SHEET_LIMIT)

\* C11: no step after the loading changes the bank (the sheets, their rows in
\* their order, each row's text, option list and correct answer), and no step
\* changes the workbook
C11_BankUnchanged ==
    [][/\ workbook' = workbook
       /\ pc # "start" => sheet_rows' = sheet_rows]_vars

\* C11 witness: two variants of a bank with rows were assembled and written,
\* and the bank is as it was loaded
C11_Witness ==
    /\ pc = "done" /\ Len(variant_docs) = 2 /\ Len(flat_pool) >= 2
    /\ variant_docs[2].count = 2
    /\ sheet_rows = LoadedBank

(***************************************************************************)
(* Runs over banks with records whose correct answer is missing or blank:  *)
(* one sheet of two rows, both drawn for each variant.                     *)
(***************************************************************************)
KeyRows ==
    { [q |-> T_stem, cells |-> <<T_p, T_q, T_q, T_q>>],
      [q |-> T_stem, cells |-> <<EMPTY, T_p, T_q, EMPTY>>],
      [q |-> T_stem, cells |-> <<T_blank, EMPTY, EMPTY, EMPTY>>] }

KeysInit ==
    /\ prog \in Programs
    /\ \E rows \in [1..2 -> KeyRows] : workbook = <<rows>>
    /\ VARIANT_COUNT \in 1..MaxVariants
    /\ QCOUNT = 2
    /\ FROM_FIRST = 2
    /\ SHEET_LIMIT = 1
    /\ extra_field = 0
    /\ InitLocals

SpecKeys == KeysInit /\ [][Next]_vars

\* the text the program looks for among the shuffled options
CorrectText(program, row) == IF program = "Script" THEN orig_text(row) ELSE row.corr

\* some option laid out in opts holds (case and surrounding blanks aside) the text
Holds(opts, text) ==
    \E i \in 1..4 : /\ truthy(opts[i]) /\ truthy(text)
                     /\ contains(lower(strip(opts[i])), lower(strip(text)))

\* the lookup of the correct option among the shuffled options finds nothing
Unresolved(program, row, opts) ==
    CASE program = "Validation" -> \A i \in 1..4 : opts[i] # row.corr
      [] program = "Windowed" ->
            (\A i \in 1..4 : opts[i] # row.corr) /\ ~Holds(opts, row.corr)
      [] OTHER -> Len(non_empty(row)) < 2 \/ ~Holds(opts, orig_text(row))

C13_SameBookletId ==
    /\ Len(key_docs) = Len(variant_docs)
    /\ \A i \in 1..Len(variant_docs) :
          variant_docs[i].count > 0 =>
             /\ variant_docs[i].booklet_id \in BookletIds
             /\ key_docs[i].number = variant_docs[i].number
             /\ key_docs[i].booklet_id = variant_docs[i].booklet_id

(***************************************************************************)
(* The draws of the rows of a variant.                                     *)
(***************************************************************************)
\* the positions a pick names
Positions(idx) == {idx[i] : i \in 1..Len(idx)}

\* the picks of k pairwise distinct positions of 1..n
DistinctPicks(n, k) ==
    {idx \in [1..k -> 1..n] : Cardinality(Positions(idx)) = k}

\* the sets of k positions of 1..n
Subsets(n, k) == {S \in SUBSET (1..n) : Cardinality(S) = k}

\* C14: the quota draw on a sheet with at least FROM_FIRST rows adds to the
\* selection FROM_FIRST rows of the sheet at pairwise distinct positions, and the
\* draws it can make cover every set of FROM_FIRST positions of the sheet
C14_QuotaDrawDistinct ==
    /\ [][(pc = "quota" /\ Len(sheet_rows[sheet_idx]) >= FROM_FIRST) =>
            \E idx \in DistinctPicks(Len(sheet_rows[sheet_idx]), FROM_FIRST) :
                selected' = selected \o Pick(sheet_rows[sheet_idx], idx)]_vars
    /\ []((pc = "quota" /\ Len(sheet_rows[sheet_idx]) >= FROM_FIRST
              /\ sheet_rows[sheet_idx] # <<>>)
            => {Positions(idx) : idx \in QuotaDraws(prog, sheet_rows[sheet_idx], FROM_FIRST)}
                 = Subsets(Len(sheet_rows[sheet_idx]), FROM_FIRST))

\* C14 witness: the quota draw took both rows of a sheet of two different rows
C14_Witness ==
    /\ pc = "overflow" /\ FROM_FIRST = 2 /\ Len(sheet_rows) = 1
    /\ Len(sheet_rows[1]) = 2 /\ sheet_rows[1][1] # sheet_rows[1][2]
    /\ Len(selected) = 2 /\ selected[1] # selected[2]

\* the two programs that draw with replacement from a short sheet
ReplacementPolicy == prog \in {"Windowed", "Script"}

\* C15: under the replacement policy the quota draw on a sheet with fewer than
\* FROM_FIRST rows does not end the run and adds to the selection FROM_FIRST
\* rows of the sheet, repeats allowed
C15_ShortSheetStillFills ==
    [][(/\ pc = "quota" /\ ReplacementPolicy /\ SpecDomain
        /\ Len(sheet_rows[sheet_idx]) < FROM_FIRST) =>
          /\ pc' # "done"
          /\ \E idx \in [1..FROM_FIRST -> 1..Len(sheet_rows[sheet_idx])] :
                selected' = selected \o Pick(sheet_rows[sheet_idx], idx)]_vars

\* the rows a sequence of rows holds
RowsOf(rows) == {rows[k] : k \in 1..Len(rows)}

\* C16: when EXTRA rows are to be drawn and the sheets read hold that many, the
\* overflow draw is made, every outcome of it has EXTRA rows, and the rows it
\* can pick are the rows of all sheets read, whatever the quota draws selected
C16_OverflowFromAllSheets ==
    (/\ pc = "overflow" /\ SpecDomain
     /\ EXTRA > 0 /\ Len(flat_pool) >= EXTRA)
    => (/\ ~OverflowSkipped(prog) /\ ~OverflowRaises(prog)
        /\ \A idx \in OverflowDraws(prog, OverflowPool(prog)) : Len(idx) = EXTRA
        /\ {Pick(OverflowPool(prog), idx)[i] :
                idx \in OverflowDraws(prog, OverflowPool(prog)), i \in 1..EXTRA}
              = RowsOf(flat_pool))

(***************************************************************************)
(* The layout of the options of an assembled question.                     *)
(***************************************************************************)
\* no empty slot comes before an option
EmptiesLast(opts) ==
    \A a, b \in 1..4 : (a < b /\ NonBlank(opts[b])) => NonBlank(opts[a])

\* C17: in every assembled question of a row with two or more options the
\* options are under the leading labels and every empty slot comes after them
C17_EmptySlotsLast ==
    \A i \in 1..Len(final_q) :
        TwoOptions(Questions(selected)[i]) => EmptiesLast(final_q[i].opts)

\* C18 (SpecShuffle): for a row of the script with fewer than two options and a
\* resolved correct label (naming its one option) the assembled question has
\* every option under its original label and the key entry is that correct label
C18_DegenerateKeepsLabel ==
    (/\ Shuffled /\ prog = "Script"
     /\ ~TwoOptions(selected[1])
     /\ OriginalLabel(prog, selected[1]) # NONE
     /\ NonBlank(OriginalText(prog, selected[1])))
    => (/\ final_q[1].opts = selected[1].opts
        /\ key[1] = OriginalLabel(prog, selected[1]))

(***************************************************************************)
(* The rule by which the new correct label is found.                       *)
(***************************************************************************)
\* a text with its surrounding blanks and its case set aside
Norm(t) == lower(strip(t))

\* the slots whose option is the text
ExactSlots(opts, t) ==
    {i \in 1..4 : NonBlank(opts[i]) /\ NonBlank(t) /\ Norm(opts[i]) = Norm(t)}

\* the slots whose option contains the text or is contained in it
SubstringSlots(opts, t) ==
    {i \in 1..4 : /\ NonBlank(opts[i]) /\ NonBlank(t)
                   /\ \/ contains(Norm(opts[i]), Norm(t))
                      \/ contains(Norm(t), Norm(opts[i]))}

LabelsOf(slots) == {LABELS[i] : i \in slots}

\* C19 (SpecShuffle): for a shuffled row of two or more options the key entry
\* is the label of an option that is the original correct text if there is one,
\* else the label of an option in a substring relation with it if there is
\* one, else ''
C19_TwoStageMatch ==
    (/\ Shuffled /\ prog \in {"Windowed", "Script"}
     /\ TwoOptions(selected[1]))
    => LET opts == final_q[1].opts
           t == CorrectText(prog, selected[1])
       IN IF ExactSlots(opts, t) # {} THEN key[1] \in LabelsOf(ExactSlots(opts, t))
          ELSE IF SubstringSlots(opts, t) # {} THEN key[1] \in LabelsOf(SubstringSlots(opts, t))
          ELSE key[1] = ""

(***************************************************************************)
(* What the option shuffle keeps.                                          *)
(***************************************************************************)
\* how often the text is among the options
Count(opts, t) == Cardinality({i \in 1..Len(opts) : opts[i] = t})

\* C20 (SpecShuffle): the assembled question of a selected row has the four
\* slots A..D and the row's question text, and every option text (a text that
\* is not blank) is among its options as often as among the options of the row
C20_OptionTextsPreserved ==
    Shuffled =>
        /\ Len(final_q) = 1
        /\ final_q[1].question = selected[1].question
        /\ Len(final_q[1].opts) = 4
        /\ \A i \in 1..4 :
              /\ NonBlank(final_q[1].opts[i]) =>
                    Count(selected[1].opts, final_q[1].opts[i])
                       = Count(final_q[1].opts, final_q[1].opts[i])
              /\ NonBlank(selected[1].opts[i]) =>
                    Count(final_q[1].opts, selected[1].opts[i])
                       = Count(selected[1].opts, selected[1].opts[i])

\* C20 witness: a row with a repeated option, another option and a cell of
\* blanks was shuffled into another order
C20_Witness ==
    /\ Shuffled /\ prog = "Windowed"
    /\ Count(selected[1].opts, T_p) = 2 /\ Count(selected[1].opts, T_q) = 1
    /\ Count(selected[1].opts, T_blank) = 1
    /\ final_q[1].opts # selected[1].opts
    /\ Count(final_q[1].opts, T_p) = 2

(***************************************************************************)
(* Runs over banks whose records are complete or have a blank correct      *)
(* answer or a missing fourth option, the correct text with or without a   *)
(* trailing blank: one sheet, read whole.                                  *)
(***************************************************************************)
T_p_blank == <<"p", " ">>

ValidatedRows ==
    { [q |-> T_stem, cells |-> <<a, T_q, T_q, d>>] :
          a \in {T_p, T_p_blank, T_blank}, d \in {T_q, EMPTY} }

ValidatedInit ==
    /\ prog \in Programs
    /\ \E n \in 1..2 : \E rows \in [1..n -> ValidatedRows] : workbook = <<rows>>
    /\ VARIANT_COUNT \in 1..MaxVariants
    /\ QCOUNT = 2
    /\ FROM_FIRST \in 1..MaxFromFirst
    /\ SHEET_LIMIT = 1
    /\ extra_field = 0
    /\ InitLocals

SpecValidated == ValidatedInit /\ [][Next]_vars

\* C21 (SpecValidated): in the validating program every key entry of a variant
\* is one of A, B, C, D, never '', and the option under it is the correct text
\* of the row, which is not blank
C21_ValidatedKeyResolved ==
    prog = "Validation" =>
        \A i \in 1..Len(key) :
            /\ key[i] \in {LABELS[l] : l \in 1..4}
            /\ TextUnder(final_q[i], key[i]) = Questions(selected)[i].corr
            /\ NonBlank(Questions(selected)[i].corr)

\* C21 witness: the second variant of a validated bank is ready to be written,
\* its two questions (one with a trailing blank in the correct text) having
\* different key entries
C21_Witness ==
    /\ prog = "Validation" /\ pc = "write" /\ v = 2 /\ errors = <<>>
    /\ Len(key) = 2 /\ key[1] # key[2]
    /\ \E i \in 1..2 : selected[i].corr = T_p_blank

====
